---- MODULE Spec2Model ----
(***************************************************************************)
(* A model of the Astronomical Event Engine of star-session-planner:       *)
(* app/services/AstronomicalEvents.py (class AstronomicalEvents) and the   *)
(* time-zone lookup of app/utilities/utils.py.                             *)
(*                                                                         *)
(* The ephemeris (skyfield) is the environment.  What it answers for the   *)
(* observer and the date of a call (the rise/set transitions of the Sun,   *)
(* the Moon and the planets, the apparent alt/az of the planets, the       *)
(* Sun-Moon elongation) is drawn from bounded sets when a method is called *)
(* and kept in the state, so that results can be related to inputs.        *)
(*                                                                         *)
(* Time is counted in ticks of the UTC day, 0 .. TicksPerDay-1.  Angles    *)
(* are counted in 1/UnitsPerDegree of a degree.                            *)
(***************************************************************************)
EXTENDS Integers, Sequences, FiniteSets, TLC

\* ------------------------------------------------------------------ bounds
TicksPerDay == 4
MaxSunTrans == 3
MaxPlanetTrans == 4
MaxMoonTrans == 3
MaxClose == 2
UnitsPerDegree == 2
MaxDay == 2

\* ------------------------------------------------------- program constants
\* the conjunction threshold of check_conjunctions, in degrees: "< 1"
ConjThresholdDeg == 1

\* Python's None, for an instant or a clock reading
Null == 0 - 1

Times == 0 .. (TicksPerDay - 1)

\* the planets enumerated by their distance from the Sun
PlanetOrderByDistance == <<"Mercury", "Venus", "Mars", "Jupiter", "Saturn">>

\* the enumeration order used by visible_planets and check_conjunctions
PlanetOrder == <<"Mars", "Venus", "Jupiter", "Saturn", "Mercury">>

Planets == {PlanetOrder[i] : i \in DOMAIN PlanetOrder}

\* bad_body = NoBody: every ephemeris lookup self.eph[...] succeeds
NoBody == "none"

Abs(x) == IF x < 0 THEN 0 - x ELSE x

Max(S) == CHOOSE x \in S : \A y \in S : y <= x

\* ------------------------------------------------- datetime values (Python)
\* none: the value is None.  t: the UTC instant (for a naive value, its
\* clock reading, which is the UTC one).  aware: the value carries a tzinfo.
\* off: the UTC offset of that tzinfo, in ticks.
NoneDT == [none |-> TRUE, t |-> 0, aware |-> FALSE, off |-> 0]

Naive(t) == [none |-> FALSE, t |-> t, aware |-> FALSE, off |-> 0]

Aware(t, off) == [none |-> FALSE, t |-> t, aware |-> TRUE, off |-> off]

\* the result of get_timezone_from_coordinates: None, or a zone
NoTz == [found |-> FALSE, off |-> 0]

Tz(off) == [found |-> TRUE, off |-> off]

TzSet == {NoTz, Tz(1)}

\* ------------------------------------------ rise/set transitions of a body
\* find_discrete returns the instants at which "body above horizon" changes
\* value, in chronological order: the flags alternate.
Nth(S, i) == CHOOSE x \in S : Cardinality({y \in S : y < x}) = i - 1

MkTrans(S, first) ==
    [i \in 1 .. Cardinality(S) |-> [t |-> Nth(S, i), rise |-> ((i % 2 = 1) = first)]]

TransSeqs(maxLen) ==
    {MkTrans(S, b) : S \in {T \in SUBSET Times : Cardinality(T) <= maxLen},
                     b \in BOOLEAN}

Min(S) == CHOOSE x \in S : \A y \in S : x <= y

\* the instants of day 0 and day 1 and the first of day 2: instant t is the
\* t-th interval of TicksPerDay to the day, counted from the start of day 0
Instants == 0 .. (2 * TicksPerDay)

\* whether the body is above the horizon at the start of each instant
Horizons == [Instants -> BOOLEAN]

NeverUp == [t \in Instants |-> FALSE]

\* t0 = ts.utc(date.year, date.month, date.day)
WindowStart(d) == d.day * TicksPerDay

\* a window that runs to the end of the following day
WindowEndNextDay(d) == (d.day + 1) * TicksPerDay + (TicksPerDay - 1)

\* t1 = ts.utc(date.year, date.month, date.day, 23, 59, 59)
WindowEnd(d) == d.day * TicksPerDay + (TicksPerDay - 1)

\* almanac.find_discrete(t0, t1, f): the instants of [t0, t1] during which
\* f changes value, in chronological order, each with the value f takes
Changes(f, t0, t1) ==
    {t \in t0 .. t1 : t \in DOMAIN f /\ (t + 1) \in DOMAIN f /\ f[t] # f[t + 1]}

FindDiscrete(f, t0, t1) ==
    LET S == Changes(f, t0, t1)
    IN  [i \in 1 .. Cardinality(S) |-> [t |-> Nth(S, i), rise |-> f[Nth(S, i) + 1]]]

\* get_risings_and_settings(date, body), where f is
\* almanac.risings_and_settings(self.eph, self.eph[body], self.location)
GetRisingsAndSettings(d, f) == FindDiscrete(f, WindowStart(d), WindowEnd(d))

\* the first transition of the given kind, or None
FirstTime(evs, flag) ==
    LET idx == {i \in DOMAIN evs : evs[i].rise = flag}
    IN  IF idx = {} THEN Null ELSE evs[Min(idx)].t

\* the last transition of the given kind, or None: the loops
\*   for time, rise in zip(times, is_rise): if rise: x = ... else: y = ...
LastTime(evs, flag) ==
    LET idx == {i \in DOMAIN evs : evs[i].rise = flag}
    IN  IF idx = {} THEN Null ELSE evs[Max(idx)].t

\* ------------------------------------------------------ get_sunrise_sunset
GetSunriseSunset(sun, tz) ==
    LET sunrise_utc == LastTime(sun, TRUE)
        sunset_utc  == LastTime(sun, FALSE)
    IN  IF sunrise_utc = Null \/ sunset_utc = Null
        THEN <<IF sunrise_utc = Null THEN NoneDT ELSE Naive(sunrise_utc),
               IF sunset_utc = Null THEN NoneDT ELSE Naive(sunset_utc)>>
        ELSE IF ~tz.found
        THEN <<Naive(sunrise_utc), Naive(sunset_utc)>>
        ELSE <<Aware(sunrise_utc, tz.off), Aware(sunset_utc, tz.off)>>

\* ------------------------------------------------------------ get_sun_info
\* format_time: the hour and minute of the value's own clock
FormatTime(dt) == IF dt.aware THEN (dt.t + dt.off) % TicksPerDay ELSE dt.t

\* line 252 for the pair ss that get_sunrise_sunset returned:
\* format_time(None) raises AttributeError, which get_sun_info lets through
SunInfoOf(ss) ==
    IF ss[1].none \/ ss[2].none
    THEN [ok |-> FALSE, val |-> [sunrise |-> Null, sunset |-> Null]]
    ELSE [ok |-> TRUE,
          val |-> [sunrise |-> FormatTime(ss[1]), sunset |-> FormatTime(ss[2])]]

GetSunInfo(sun, tz) == SunInfoOf(GetSunriseSunset(sun, tz))

\* --------------------------------------------------------------- get_alt_az
\* sky[t][p]: the apparent position of planet p at instant t
GetAltAz(sk, p, t) == sk[t][p]

NoPos == [alt |-> Null, az |-> Null]

\* --------------------------------------------------------- visible_planets
\* a comparison that accepts every pair of values
CompareNeverRaises(sunrise, sunset) == FALSE

\* The comparison of line 87 raises when sunrise_time is None (line 81,
\* AttributeError) or naive (TypeError: rise_time_aware is aware).
CompareRaises(sunrise, sunset) == sunrise.none \/ ~sunrise.aware

\* line 87: rise_time_aware < sunrise_time or rise_time_aware > sunset_time;
\* aware values compare by their UTC instants
OutsideDaytime(rise_t, sunrise, sunset) == rise_t < sunrise.t \/ rise_t > sunset.t

\* a test that is content with either instant
PairCompleteEither(st) == st.rise_time # Null \/ st.set_time # Null

\* line 80: if rise_time and set_time
PairComplete(st) == st.rise_time # Null /\ st.set_time # Null

RECURSIVE PlanetLoop(_, _, _, _, _, _, _, _)
PlanetLoop(p, evs, i, st, sunrise, sunset, sk, acc) ==
    IF i > Len(evs) THEN acc
    ELSE
      LET ev  == evs[i]
          st1 == IF ev.rise
                 THEN [st EXCEPT !.rise_time = ev.t, !.rise_pos = GetAltAz(sk, p, ev.t)]
                 ELSE [st EXCEPT !.set_time = ev.t, !.set_pos = GetAltAz(sk, p, ev.t)]
      IN  IF PairComplete(st1)
          THEN IF CompareRaises(sunrise, sunset)
               THEN acc   \* except Exception: continue with the next planet
               ELSE LET entry == [planet |-> p,
                                  rise_time |-> st1.rise_time,
                                  set_time |-> st1.set_time,
                                  rise_altitude |-> st1.rise_pos.alt,
                                  rise_azimuth |-> st1.rise_pos.az,
                                  set_altitude |-> st1.set_pos.alt,
                                  set_azimuth |-> st1.set_pos.az]
                        acc1 == IF OutsideDaytime(st1.rise_time, sunrise, sunset)
                                THEN Append(acc, entry) ELSE acc
                    IN  PlanetLoop(p, evs, i + 1,
                                   [st1 EXCEPT !.rise_time = Null, !.set_time = Null],
                                   sunrise, sunset, sk, acc1)
          ELSE PlanetLoop(p, evs, i + 1, st1, sunrise, sunset, sk, acc)

\* an except clause that empties the list before it continues
PlanetEntriesReset(p, evs, sunrise, sunset, sk, bad, acc) ==
    IF bad = p
    THEN <<>>
    ELSE PlanetLoop(p, evs, 1,
                    [rise_time |-> Null, set_time |-> Null,
                     rise_pos |-> NoPos, set_pos |-> NoPos],
                    sunrise, sunset, sk, acc)

\* one iteration of the loop over the planets, inside its try block
PlanetEntries(p, evs, sunrise, sunset, sk, bad, acc) ==
    IF bad = p
    THEN acc   \* self.eph[planet_barycenter] raises: the planet is skipped
    ELSE PlanetLoop(p, evs, 1,
                    [rise_time |-> Null, set_time |-> Null,
                     rise_pos |-> NoPos, set_pos |-> NoPos],
                    sunrise, sunset, sk, acc)

RECURSIVE VisibleFrom(_, _, _, _, _, _, _)
VisibleFrom(k, pe, sunrise, sunset, sk, bad, acc) ==
    IF k > Len(PlanetOrder) THEN acc
    ELSE VisibleFrom(k + 1, pe, sunrise, sunset, sk, bad,
                     PlanetEntries(PlanetOrder[k], pe[PlanetOrder[k]],
                                   sunrise, sunset, sk, bad, acc))

VisiblePlanets(sun, tz, pe, sk, bad) ==
    LET ss == GetSunriseSunset(sun, tz)
    IN  [ok |-> TRUE, val |-> VisibleFrom(1, pe, ss[1], ss[2], sk, bad, <<>>)]

\* ------------------------------------------------------- check_conjunctions
ConjThreshold == ConjThresholdDeg * UnitsPerDegree

\* the threshold taken inclusively
IsConjunctionInclusive(a1, a2) ==
    Abs(a1.alt - a2.alt) <= ConjThreshold /\ Abs(a1.az - a2.az) <= ConjThreshold

\* line 152
IsConjunction(a1, a2) ==
    Abs(a1.alt - a2.alt) < ConjThreshold /\ Abs(a1.az - a2.az) < ConjThreshold

\* a sampling that also takes the Sun's setting instants
SampledRiseOrSet(ev) == TRUE

\* line 135: if not rise: continue
Sampled(ev) == ev.rise

PlanetIndex(p) == CHOOSE i \in DOMAIN PlanetOrder : PlanetOrder[i] = p

\* an inner loop that starts after the outer planet: unordered pairs only
SkipPairUnordered(p1, p2) == PlanetIndex(p1) >= PlanetIndex(p2)

\* line 144: if planet1_name == planet2_name: continue
SkipPair(p1, p2) == p1 = p2

NPlanets == Len(PlanetOrder)

\* the two nested loops over the planets at instant t; k counts the
\* iterations, (k-1) \div 5 the outer and (k-1) % 5 the inner index
RECURSIVE PairLoop(_, _, _, _, _)
PairLoop(t, k, sk, bad, acc) ==
    IF k > NPlanets * NPlanets THEN [ok |-> TRUE, val |-> acc]
    ELSE
      LET p1 == PlanetOrder[((k - 1) \div NPlanets) + 1]
          p2 == PlanetOrder[((k - 1) % NPlanets) + 1]
      IN  IF SkipPair(p1, p2) THEN PairLoop(t, k + 1, sk, bad, acc)
          ELSE IF bad \in {p1, p2}
          THEN [ok |-> FALSE, val |-> <<>>]   \* the lookup raises: nothing catches it
          ELSE IF IsConjunction(GetAltAz(sk, p1, t), GetAltAz(sk, p2, t))
          THEN PairLoop(t, k + 1, sk, bad,
                        Append(acc, [first |-> p1, second |-> p2, time |-> t]))
          ELSE PairLoop(t, k + 1, sk, bad, acc)

RECURSIVE SunLoop(_, _, _, _, _)
SunLoop(sun, i, sk, bad, acc) ==
    IF i > Len(sun) THEN [ok |-> TRUE, val |-> acc]
    ELSE IF ~Sampled(sun[i]) THEN SunLoop(sun, i + 1, sk, bad, acc)
    ELSE LET r == PairLoop(sun[i].t, 1, sk, bad, acc)
         IN  IF ~r.ok THEN r ELSE SunLoop(sun, i + 1, sk, bad, r.val)

CheckConjunctions(sun, sk, bad) == SunLoop(sun, 1, sk, bad, <<>>)

\* ---------------------------------------------------- check_meteor_showers
\* A datetime restricted to what the comparison reads: the calendar day and
\* whether the time of day is later than 00:00:00.  strptime("%Y-%m-%d")
\* yields midnight.
Midnight(day) == [day |-> day, late |-> FALSE]

DateLeq(a, b) == a.day < b.day \/ (a.day = b.day /\ (~a.late \/ b.late))

\* line 181: start_date <= date <= end_date
ShowerActive(shower, d) ==
    DateLeq(Midnight(shower.start), d) /\ DateLeq(d, Midnight(shower.end))

RECURSIVE ShowerLoop(_, _, _, _)
ShowerLoop(data, i, d, acc) ==
    IF i > Len(data) THEN acc
    ELSE ShowerLoop(data, i + 1, d,
                    IF ShowerActive(data[i], d) THEN Append(acc, data[i]) ELSE acc)

CheckMeteorShowers(data, d) == [ok |-> TRUE, val |-> ShowerLoop(data, 1, d, <<>>)]

\* the records of static/data/meteor_showers.json, read by the constructor
Calendar ==
    << [name |-> "Lyrids", start |-> 1, end |-> 1],
       [name |-> "Perseids", start |-> 1, end |-> 2] >>

\* --------------------------------------------------------------- moon_info
\* skyfield.almanac.MOON_PHASES, indexed from 0
MOON_PHASES == <<"New Moon", "First Quarter", "Full Moon", "Last Quarter">>

\* an index that counts eighths of the circle into the four names
MoonPhaseIndexEighths(elong) == (elong \div 45) % 4

\* skyfield.almanac.moon_phases(eph)(t0): the quarter of the elongation
MoonPhaseIndex(elong) == (elong \div 90) % 4

\* a moon_info that formats both instants, as get_sun_info does
MoonInfoNeedsBoth(moon, elong) ==
    [ok |-> LastTime(moon, TRUE) # Null /\ LastTime(moon, FALSE) # Null,
     val |-> [moonrise |-> LastTime(moon, TRUE),
              moonset |-> LastTime(moon, FALSE),
              moon_phase |-> MOON_PHASES[MoonPhaseIndex(elong) + 1]]]

MoonInfo(moon, elong) ==
    [ok |-> TRUE,
     val |-> [moonrise |-> LastTime(moon, TRUE),
              moonset |-> LastTime(moon, FALSE),
              moon_phase |-> MOON_PHASES[MoonPhaseIndex(elong) + 1]]]

\* ------------------------------------------------- get_astronomical_events
\* the dict display of lines 262-263 evaluates the five calls in order; an
\* exception of any of them leaves through get_astronomical_events
GetAstronomicalEvents(d, sun, tz, pe, sk, moon, elong, bad, data) ==
    LET v == VisiblePlanets(sun, tz, pe, sk, bad)
        c == CheckConjunctions(sun, sk, bad)
        m == CheckMeteorShowers(data, d)
        i == MoonInfo(moon, elong)
        s == GetSunInfo(sun, tz)
    IN  [ok |-> v.ok /\ c.ok /\ m.ok /\ i.ok /\ s.ok,
         visible_planets |-> v.val, conjunctions |-> c.val,
         meteor_showers |-> m.val, moon_info |-> i.val, sun_info |-> s.val]

\* the calls, after the first WarmUp requests, that take any input
MaxVaried == 3

\* ------------------------------------------------------ functools.lru_cache
\* Every method below carries @lru_cache(maxsize=128).  The decorator keeps
\* one cache per function, shared by all objects of the class; a cache is
\* the sequence of its entries from the least to the most recently used.
CacheMaxSize == 128

Methods ==
    {"visible_planets", "get_risings_and_settings", "check_conjunctions",
     "load_meteor_shower_data", "check_meteor_showers", "moon_info",
     "get_sunrise_sunset", "get_sun_info", "get_astronomical_events"}

NoCaches == [m \in Methods |-> <<>>]

\* a key that leaves the object out
CacheKeyArgsOnly(self, args) == args

\* the key of self.method(*args): self is the first positional argument,
\* hashed by identity (the class defines neither __eq__ nor __hash__)
CacheKey(self, args) == <<self>> \o args

Position(c, key) == {i \in DOMAIN c : c[i].key = key}

\* a hit: the entry moves to the most recently used end
LruTouch(c, i, now) ==
    SubSeq(c, 1, i - 1) \o SubSeq(c, i + 1, Len(c)) \o <<[c[i] EXCEPT !.used = now]>>

\* a cache that keeps every entry (maxsize=None)
LruInsertUnbounded(c, key, val, now) ==
    Append(c, [key |-> key, val |-> val, used |-> now])

\* a miss whose call returned: the result is stored, in place of the
\* least recently used entry when the cache is full
LruInsert(c, key, val, now) ==
    LET e == [key |-> key, val |-> val, used |-> now]
    IN  IF Len(c) >= CacheMaxSize THEN Append(Tail(c), e) ELSE Append(c, e)

\* the wrapper finds the key: the stored value is returned, nothing is called
Served(cs, m, key, now) ==
    LET i == CHOOSE j \in Position(cs[m], key) : TRUE
    IN  [ok |-> TRUE, hit |-> TRUE, val |-> cs[m][i].val,
         cs |-> [cs EXCEPT ![m] = LruTouch(@, i, now)]]

\* the wrapper after the call r of the wrapped function: a returned value
\* is stored, an exception passes through and nothing is stored
Stored(r, m, key, now) ==
    IF r.ok
    THEN [ok |-> TRUE, hit |-> FALSE, val |-> r.val,
          cs |-> [r.cs EXCEPT ![m] = LruInsert(@, key, r.val, now)]]
    ELSE [ok |-> FALSE, hit |-> FALSE, val |-> r.val, cs |-> r.cs]

Cached(cs, m, key) == Position(cs[m], key) # {}

\* ------------------------------------------------------- the memoized calls
\* cs: the caches; cx: the call, [self, date, now, env], env being what the
\* ephemeris, the zone lookup and the object's attributes answer for it
DateArgs(cx) == <<cx.date>>

CachedLoadMeteorShowerData(cs, self, now, data) ==
    LET m == "load_meteor_shower_data"
        key == CacheKey(self, <<>>)
    IN  IF Cached(cs, m, key) THEN Served(cs, m, key, now)
        ELSE Stored([ok |-> TRUE, val |-> data, cs |-> cs], m, key, now)

CachedRisingsAndSettings(cs, cx) ==
    LET m == "get_risings_and_settings"
        key == CacheKey(cx.self, <<cx.date, "sun">>)
    IN  IF Cached(cs, m, key) THEN Served(cs, m, key, cx.now)
        ELSE Stored([ok |-> TRUE, val |-> cx.env.sun, cs |-> cs], m, key, cx.now)

CachedSunriseSunset(cs, cx) ==
    LET m == "get_sunrise_sunset"
        key == CacheKey(cx.self, DateArgs(cx))
        ras == CachedRisingsAndSettings(cs, cx)
    IN  IF Cached(cs, m, key) THEN Served(cs, m, key, cx.now)
        ELSE Stored([ok |-> TRUE, val |-> GetSunriseSunset(ras.val, cx.env.tz),
                     cs |-> ras.cs], m, key, cx.now)

CachedVisiblePlanets(cs, cx) ==
    LET m == "visible_planets"
        key == CacheKey(cx.self, DateArgs(cx))
        ss == CachedSunriseSunset(cs, cx)
    IN  IF Cached(cs, m, key) THEN Served(cs, m, key, cx.now)
        ELSE Stored([ok |-> TRUE,
                     val |-> VisibleFrom(1, cx.env.pe, ss.val[1], ss.val[2],
                                         cx.env.sk, cx.env.bad, <<>>),
                     cs |-> ss.cs], m, key, cx.now)

CachedCheckConjunctions(cs, cx) ==
    LET m == "check_conjunctions"
        key == CacheKey(cx.self, DateArgs(cx))
        ras == CachedRisingsAndSettings(cs, cx)
        r == CheckConjunctions(ras.val, cx.env.sk, cx.env.bad)
    IN  IF Cached(cs, m, key) THEN Served(cs, m, key, cx.now)
        ELSE Stored([ok |-> r.ok, val |-> r.val, cs |-> ras.cs], m, key, cx.now)

CachedCheckMeteorShowers(cs, cx) ==
    LET m == "check_meteor_showers"
        key == CacheKey(cx.self, DateArgs(cx))
        r == CheckMeteorShowers(cx.env.data, cx.date)
    IN  IF Cached(cs, m, key) THEN Served(cs, m, key, cx.now)
        ELSE Stored([ok |-> r.ok, val |-> r.val, cs |-> cs], m, key, cx.now)

CachedMoonInfo(cs, cx) ==
    LET m == "moon_info"
        key == CacheKey(cx.self, DateArgs(cx))
        r == MoonInfo(cx.env.moon, cx.env.elong)
    IN  IF Cached(cs, m, key) THEN Served(cs, m, key, cx.now)
        ELSE Stored([ok |-> r.ok, val |-> r.val, cs |-> cs], m, key, cx.now)

CachedSunInfo(cs, cx) ==
    LET m == "get_sun_info"
        key == CacheKey(cx.self, DateArgs(cx))
        ss == CachedSunriseSunset(cs, cx)
        r == SunInfoOf(ss.val)
    IN  IF Cached(cs, m, key) THEN Served(cs, m, key, cx.now)
        ELSE Stored([ok |-> r.ok, val |-> r.val, cs |-> ss.cs], m, key, cx.now)

NoEvents ==
    [visible_planets |-> <<>>, conjunctions |-> <<>>, meteor_showers |-> <<>>,
     moon_info |-> [moonrise |-> Null, moonset |-> Null, moon_phase |-> "none"],
     sun_info |-> [sunrise |-> Null, sunset |-> Null]]

\* the exception of a call made by get_astronomical_events leaves through
\* it, with the caches as the calls before it left them
Raised(cs) == [ok |-> FALSE, hit |-> FALSE, val |-> NoEvents, cs |-> cs]

CachedAstronomicalEvents(cs, cx) ==
    LET m == "get_astronomical_events"
        key == CacheKey(cx.self, DateArgs(cx))
        v == CachedVisiblePlanets(cs, cx)
        c == CachedCheckConjunctions(v.cs, cx)
        s == CachedCheckMeteorShowers(c.cs, cx)
        i == CachedMoonInfo(s.cs, cx)
        u == CachedSunInfo(i.cs, cx)
    IN  IF Cached(cs, m, key) THEN Served(cs, m, key, cx.now)
        ELSE IF ~v.ok THEN Raised(v.cs)
        ELSE IF ~c.ok THEN Raised(c.cs)
        ELSE IF ~s.ok THEN Raised(s.cs)
        ELSE IF ~i.ok THEN Raised(i.cs)
        ELSE IF ~u.ok THEN Raised(u.cs)
        ELSE Stored([ok |-> TRUE,
                     val |-> [visible_planets |-> v.val, conjunctions |-> c.val,
                              meteor_showers |-> s.val, moon_info |-> i.val,
                              sun_info |-> u.val],
                     cs |-> u.cs], m, key, cx.now)

\* ---------------------------------------------------------- bounded inputs
SunSeqs == TransSeqs(MaxSunTrans)

\* Sun up from tick 1 to tick 2; the same two instants with the set first
\* (an observer whose local day straddles UTC midnight); no transition
DaySun == MkTrans({1, 2}, TRUE)

SetFirstSun == MkTrans({1, 2}, FALSE)

SunSmall == {DaySun, SetFirstSun, <<>>}

PlanetSeqs == TransSeqs(MaxPlanetTrans)

\* one planet with any transitions and the others with none, or all alike
PlanetDays ==
    {[p \in Planets |-> IF p = q THEN s ELSE <<>>] : q \in Planets, s \in PlanetSeqs}
    \cup {[p \in Planets |-> s] : s \in PlanetSeqs}

NoPlanetUp == [p \in Planets |-> <<>>]

AllNightRise == [p \in Planets |-> MkTrans({0, 3}, TRUE)]

MarsDayRise ==
    [p \in Planets |-> IF p = "Mars" THEN MkTrans({1, 3}, TRUE) ELSE MkTrans({0, 2}, TRUE)]

PlanetDaysSmall == {NoPlanetUp, AllNightRise, MarsDayRise}

\* positions far from each other and from NearPos
FarPos(p) == [alt |-> 8 * UnitsPerDegree * PlanetIndex(p),
              az |-> 60 * UnitsPerDegree * PlanetIndex(p)]

FarFn == [p \in Planets |-> FarPos(p)]

NearBase == [alt |-> 30 * UnitsPerDegree, az |-> 100 * UnitsPerDegree]

Shifted(pos, da, dz) == [alt |-> pos.alt + da, az |-> pos.az + dz]

\* four positions: pairs of them differ by less than, and by exactly, one
\* degree in either coordinate
NearPos ==
    {NearBase, Shifted(NearBase, 1, 1), Shifted(NearBase, UnitsPerDegree, 1),
     Shifted(NearBase, 1, UnitsPerDegree + 1)}

\* at most MaxClose planets near each other, the others far apart
PosFns ==
    UNION {{[p \in Planets |-> IF p \in G THEN g[p] ELSE FarPos(p)] : g \in [G -> NearPos]}
           : G \in {H \in SUBSET Planets : Cardinality(H) <= MaxClose}}

\* the planets take the positions f at the instants of T0, FarFn otherwise;
\* T0 is one of the two instants of SunSmall, or the whole day
Sky(T0, f) == [t \in Times |-> IF t \in T0 THEN f ELSE FarFn]

Skies == {Sky(T0, f) : T0 \in {{1}, {2}, Times}, f \in PosFns}

MarsVenusClose ==
    [p \in Planets |-> IF p \in {"Mars", "Venus"} THEN NearBase ELSE FarPos(p)]

SkySmall == {Sky(Times, FarFn), Sky(Times, MarsVenusClose)}

\* all five planets at one position, all day
SkyAllClose == Sky(Times, [p \in Planets |-> NearBase])

\* Mars just west and Venus just east of north, at one altitude: their
\* azimuths are the last step before 360 degrees and 0 degrees
AcrossNorth ==
    [p \in Planets |->
        IF p = "Mars" THEN [alt |-> NearBase.alt, az |-> 360 * UnitsPerDegree - 1]
        ELSE IF p = "Venus" THEN [alt |-> NearBase.alt, az |-> 0]
        ELSE FarPos(p)]

SkyAcrossNorth == Sky(Times, AcrossNorth)

SkySpecial == {SkyAllClose, SkyAcrossNorth}

MoonSeqs == TransSeqs(MaxMoonTrans)

MoonSmall == {<<>>, MkTrans({0, 2}, TRUE)}

\* degrees, in [0, 360): the sector centres and the sector borders
Elongations == {0, 22, 23, 45, 67, 68, 89, 90, 135, 179, 180, 225, 270, 315, 337, 338, 359}

ElongSmall == {180}

Dates == [day : 0 .. MaxDay, late : BOOLEAN]

DateSmall == {[day |-> 1, late |-> TRUE]}

\* the dates whose day the instants cover
WindowDates == [day : {0, 1}, late : BOOLEAN]

DatePair == {[day |-> 1, late |-> FALSE], [day |-> 2, late |-> TRUE]}

BadBodies == Planets \cup {NoBody}

\* ------------------------------------------------------------ the requests
\* the observers of the requests, by their coordinates; Anywhere is the
\* observer of an object of which nothing more is assumed
Observers == {"berlin", "polar"}

Anywhere == "anywhere"

\* what the zone lookup and the ephemeris answer for an observer and a
\* day: they read the year, month and day of the date only.  The polar
\* observer has no Sun transition on day 1.
Answers(coords, d) ==
    IF coords = "polar"
    THEN [tz |-> Tz(1),
          sun |-> IF d.day = 1 THEN <<>> ELSE SetFirstSun,
          pe |-> IF d.day = 1 THEN NoPlanetUp ELSE AllNightRise,
          sk |-> Sky(Times, FarFn),
          moon |-> <<>>,
          elong |-> IF d.day = 1 THEN 180 ELSE 270]
    ELSE [tz |-> Tz(1),
          sun |-> DaySun,
          pe |-> IF d.day = 1 THEN AllNightRise ELSE MarsDayRise,
          sk |-> Sky(Times, MarsVenusClose),
          moon |-> IF d.day = 1 THEN MkTrans({0, 2}, TRUE) ELSE <<>>,
          elong |-> IF d.day = 1 THEN 180 ELSE 270]

\* the call self.method(date) made as the now-th call, with the answers a,
\* the ephemeris failing for body bad and the object holding the calendar data
Call(self, d, now, a, bad, data) ==
    [self |-> self, date |-> d, now |-> now,
     env |-> [tz |-> a.tz, sun |-> a.sun, pe |-> a.pe, sk |-> a.sk,
              moon |-> a.moon, elong |-> a.elong, bad |-> bad, data |-> data]]

\* the requests that fill the caches up to one entry less than their size
\* the ephemeris of the requests is whole, or its lookup of Mars fails
RequestBadBodies == {NoBody, "Mars"}

WarmUp == CacheMaxSize - 1

WarmObserver == "berlin"

WarmDate == [day |-> 1, late |-> FALSE]


\* ------------------------------------------------------------------- state
\* ------------------------------------------------------ OpenMeteoClient
MaxClients == 2

Clients == 1 .. MaxClients

\* self.response = None
NoResponse == "None"

\* what responses[0] can be
Payloads == {"sunny", "cloudy", "rain"}

\* self.client.weather_api(self.url, params=self.params): it raises, it
\* returns an empty list, or it returns a list whose first element is a
\* payload
ApiOutcomes == {"raises", "empty"} \cup Payloads

ApiFailed(api) == api \in {"raises", "empty"}

\* a fetch that leaves self.response alone when the call fails
FetchKeepsResponse(response, api) == IF ApiFailed(api) THEN response ELSE api

\* fetch_weather_data(), as the value of self.response after it
FetchWeatherData(response, api) == IF ApiFailed(api) THEN NoResponse ELSE api

Readers == <<"get_location_info", "get_current_weather",
             "get_hourly_weather", "get_daily_weather">>

ReaderNames == {Readers[i] : i \in DOMAIN Readers}

\* get_hourly_weather returns a DataFrame, the other readers a dict
Returns(m) == IF m = "get_hourly_weather" THEN "DataFrame" ELSE "dict"

Raise(e) == [ok |-> FALSE, error |-> e, val |-> "none"]

Return(v) == [ok |-> TRUE, error |-> "none", val |-> v]

\* a reader called on a client whose self.response is response
Read(response, m) ==
    IF response = NoResponse THEN Raise("ValueError")
    ELSE Return(<<Returns(m), response>>)

NoWeatherCall == [client |-> 0, method |-> "none", result |-> Return("none")]

\* how a fetch ended, and whether a response was stored before it
NeverFetched == [ended |-> "never", had_response |-> FALSE]

\* ------------------------------------------------- /process_coordinates
MaxCenters == 1

\* what the request carries and what the external services do for it
Externals ==
    [body : {"coords", "no_latitude"},
     terrain : {"ok", "fails"},
     elevation : {"ok", "fails"},
     weather : {"raises", "sunny"},
     centers : 0 .. MaxCenters,
     coords : Observers,
     date : DatePair]

NoRequest ==
    [body |-> "none", terrain |-> "none", elevation |-> "none",
     weather |-> "none", centers |-> 0, coords |-> "none",
     date |-> [day |-> 0, late |-> FALSE]]

\* data = request.get_json(); data['latitude'], data['longitude']
ReadCoordinates(ext) ==
    IF ext.body = "coords" THEN Return(ext.coords) ELSE Raise("KeyError")

\* fetch_terrain_type(cls, latitude, longitude) takes two arguments beside
\* cls, and get_terrain_types passes none
FetchTerrainTypeParams == 2

GetTerrainTypesPasses == 0

\* get_terrain_types: fetch_terrain_type itself turns a failed request
\* into "Unknown"
GetTerrainTypes(ext) ==
    IF GetTerrainTypesPasses < FetchTerrainTypeParams THEN Raise("TypeError")
    ELSE Return(IF ext.terrain = "ok" THEN "terrain" ELSE "Unknown")

\* get_elevation: fetch_elevation turns a failed request into None
GetElevation(ext) == Return(IF ext.elevation = "ok" THEN "elevation" ELSE "None")

HasToDict(kind) == kind = "DataFrame"

\* get_weather_data: a new client, one fetch, the four readers in the
\* order of the dict display, and .to_dict on what the last two return
GetWeatherData(ext) ==
    LET response == FetchWeatherData(NoResponse, ext.weather)
        r == [i \in DOMAIN Readers |-> Read(response, Readers[i])]
        failed == {i \in DOMAIN Readers :
                     \/ ~r[i].ok
                     \/ /\ Readers[i] \in {"get_hourly_weather", "get_daily_weather"}
                        /\ ~HasToDict(Returns(Readers[i]))}
        i == Min(failed)
    IN  IF failed = {} THEN Return("weather")
        ELSE IF ~r[i].ok THEN r[i] ELSE Raise("AttributeError")

\* the arguments of UrbanCenterDistanceCalculator.__init__, which
\* lru_cache hashes
Hashable(kind) == kind \notin {"list", "dict"}

CalculatorArgs == <<"object", "float", "float", "list">>

\* get_urban_centers: fetch_urban_centers turns a failed request into []
GetUrbanCenters(ext) ==
    IF ext.centers = 0 THEN Raise("ValueError")
    ELSE IF \E i \in DOMAIN CalculatorArgs : ~Hashable(CalculatorArgs[i])
    THEN Raise("TypeError")
    ELSE Return("centers")

\* the handler up to the call of get_astronomical_events: the first of
\* its steps that raises ends it
BeforeAstronomy(ext) ==
    LET steps == <<ReadCoordinates(ext), GetTerrainTypes(ext), GetElevation(ext),
                   GetWeatherData(ext), GetUrbanCenters(ext)>>
        failed == {i \in DOMAIN steps : ~steps[i].ok}
    IN  IF failed = {} THEN Return("result") ELSE steps[Min(failed)]

ResultKeys ==
    {"terrain_types", "elevation", "location_info", "current_weather",
     "hourly_weather", "daily_weather", "urban_centers",
     "distance_from_urban_center", "nearest_urban_center", "astronomical_events"}

\* jsonify({'formatted_result': formatted_result, 'data': result})
OkBody == [keys |-> {"formatted_result", "data"}, data |-> ResultKeys, error |-> "none"]

\* jsonify({"error": str(e)})
ErrorBody(e) == [keys |-> {"error"}, data |-> {}, error |-> e]

NoBodyYet == [keys |-> {}, data |-> {}, error |-> "none"]

\* --------------------------------------------------------- the data files
DataFiles == {"present", "no_ephemeris", "no_calendar"}

VARIABLES
    bad_body,            \* the body whose lookup self.eph[...] raises, or NoBody
    meteor_shower_data,  \* self.meteor_shower_data
    op,                  \* the method called on the object, "none" before
    date,                \* its argument
    local_tz,            \* get_timezone_from_coordinates for self.location
    sun_events,          \* find_discrete for the Sun on that day
    planet_events,       \* find_discrete for each planet
    sky,                 \* the alt/az of each planet at each instant
    moon_events,         \* find_discrete for the Moon
    elongation,          \* the Sun-Moon elongation at the start of the day
    outcome,             \* "none", "returned" or "raised"
    r_visible, r_conj, r_showers, r_moon, r_sun,  \* what the call returned
    objects,             \* the AstronomicalEvents objects built, by observer
    file_reads,          \* how often meteor_showers.json has been opened
    caches,              \* the lru_cache of each memoized method
    self,                \* the object of the last call, 0 before
    entry_point,         \* "routes", "method" or "none": how it was called
    cache_hit,           \* whether the last call was served from its cache
    history,             \* the results of get_astronomical_events so far
    n_calls,             \* the number of calls so far
    horizon,             \* whether the body is above the horizon, by instant
    r_transitions,       \* what get_risings_and_settings returned
    data_files,          \* which of the data files can be loaded
    app_started,         \* whether create_app has returned
    failure_seen,        \* where a data file failed to load: "none",
                         \* "startup" or "request"
    http_ext,            \* what the external services did for the request
    http_status,         \* the status of the last response, 0 before
    http_body,           \* the keys of its body and of its data
    w_response,          \* self.response of each OpenMeteoClient
    w_last_fetch,        \* how its last fetch_weather_data ended
    w_call               \* the last call on a client and how it ended

vars == <<bad_body, meteor_shower_data, op, date, local_tz, sun_events,
          planet_events, sky, moon_events, elongation, outcome,
          r_visible, r_conj, r_showers, r_moon, r_sun,
          objects, file_reads, caches, self, entry_point, cache_hit,
          history, n_calls, horizon, r_transitions,
          data_files, app_started, failure_seen,
          http_ext, http_status, http_body,
          w_response, w_last_fetch, w_call>>

startup_vars == <<data_files, app_started, failure_seen>>

http_vars == <<http_ext, http_status, http_body>>

weather_vars == <<w_response, w_last_fetch, w_call>>

astronomy_vars == <<bad_body, meteor_shower_data, op, date, local_tz, sun_events,
                    planet_events, sky, moon_events, elongation, outcome,
                    r_visible, r_conj, r_showers, r_moon, r_sun,
                    objects, file_reads, caches, self, entry_point, cache_hit,
                    history, horizon, r_transitions>>

NoMoon == [moonrise |-> Null, moonset |-> Null, moon_phase |-> "none"]

NoSun == [sunrise |-> Null, sunset |-> Null]

\* nothing has been called and nothing has been asked of the ephemeris or
\* the zone lookup
Fresh ==
    /\ local_tz = NoTz
    /\ meteor_shower_data = Calendar
    /\ op = "none"
    /\ date = [day |-> 0, late |-> FALSE]
    /\ sun_events = <<>>
    /\ planet_events = NoPlanetUp
    /\ sky = Sky(Times, FarFn)
    /\ moon_events = <<>>
    /\ elongation = 0
    /\ outcome = "none"
    /\ r_visible = <<>>
    /\ r_conj = <<>>
    /\ r_showers = <<>>
    /\ r_moon = NoMoon
    /\ r_sun = NoSun
    /\ entry_point = "none"
    /\ cache_hit = FALSE
    /\ history = {}
    /\ n_calls = 0
    /\ horizon = NeverUp
    /\ r_transitions = <<>>
    /\ http_ext = NoRequest
    /\ http_status = 0
    /\ http_body = NoBodyYet
    /\ w_response = [c \in Clients |-> NoResponse]
    /\ w_last_fetch = [c \in Clients |-> NeverFetched]
    /\ w_call = NoWeatherCall

\* __init__ has run once: the ephemeris and the shower calendar are loaded
Init ==
    /\ Fresh
    /\ bad_body \in BadBodies
    /\ objects = <<Anywhere>>
    /\ self = 1
    /\ file_reads = 1
    /\ caches = CachedLoadMeteorShowerData(NoCaches, 1, 0, Calendar).cs
    /\ data_files = "present"
    /\ app_started = TRUE
    /\ failure_seen = "none"

\* the call of method m with argument d, for which the zone lookup answers
\* tz and the ephemeris sun, pe, sk, moon and elong
Observed(m, d, tz, sun, pe, sk, moon, elong) ==
    /\ op' = m
    /\ date' = d
    /\ local_tz' = tz
    /\ sun_events' = sun
    /\ planet_events' = pe
    /\ sky' = sk
    /\ moon_events' = moon
    /\ elongation' = elong
    /\ entry_point' = "method"
    /\ cache_hit' = FALSE
    /\ n_calls' = n_calls + 1
    /\ UNCHANGED <<bad_body, meteor_shower_data, objects, file_reads, self>>
    /\ UNCHANGED <<startup_vars, http_vars, weather_vars>>

\* a call that does not ask for the transitions of a body by itself
Observe(m, d, tz, sun, pe, sk, moon, elong) ==
    /\ Observed(m, d, tz, sun, pe, sk, moon, elong)
    /\ UNCHANGED <<horizon, r_transitions>>

\* the same call, as the memoized methods take it
Cx(d, tz, sun, pe, sk, moon, elong) ==
    Call(self, d, n_calls + 1,
         [tz |-> tz, sun |-> sun, pe |-> pe, sk |-> sk, moon |-> moon, elong |-> elong],
         bad_body, meteor_shower_data)

\* what get_astronomical_events gave for an observer and a date
Result(coords, d, ok, val, hit) ==
    [coords |-> coords, date |-> d, ok |-> ok, val |-> IF ok THEN val ELSE NoEvents,
     hit |-> hit]

Outcome(ok) == IF ok THEN "returned" ELSE "raised"

visible_planets ==
    /\ op = "none"
    /\ \E d \in DateSmall, tz \in TzSet, sk \in SkySmall,
       in \in (SunSeqs \X PlanetDaysSmall) \cup (SunSmall \X PlanetDays) :
        LET r == VisiblePlanets(in[1], tz, in[2], sk, bad_body)
        IN  /\ Observe("visible_planets", d, tz, in[1], in[2], sk, <<>>, 0)
            /\ caches' = CachedVisiblePlanets(
                              caches, Cx(d, tz, in[1], in[2], sk, <<>>, 0)).cs
            /\ UNCHANGED history
            /\ outcome' = Outcome(r.ok)
            /\ r_visible' = IF r.ok THEN r.val ELSE <<>>
            /\ UNCHANGED <<r_conj, r_showers, r_moon, r_sun>>

check_conjunctions ==
    /\ op = "none"
    /\ \E d \in DateSmall,
       in \in (SunSeqs \X (SkySmall \cup SkySpecial)) \cup (SunSmall \X Skies) :
        LET r == CheckConjunctions(in[1], in[2], bad_body)
        IN  /\ Observe("check_conjunctions", d, NoTz, in[1], NoPlanetUp, in[2], <<>>, 0)
            /\ caches' = CachedCheckConjunctions(
                              caches, Cx(d, NoTz, in[1], NoPlanetUp, in[2], <<>>, 0)).cs
            /\ UNCHANGED history
            /\ outcome' = Outcome(r.ok)
            /\ r_conj' = IF r.ok THEN r.val ELSE <<>>
            /\ UNCHANGED <<r_visible, r_showers, r_moon, r_sun>>

check_meteor_showers ==
    /\ op = "none"
    /\ \E d \in Dates :
        LET r == CheckMeteorShowers(meteor_shower_data, d)
        IN  /\ Observe("check_meteor_showers", d, NoTz, <<>>, NoPlanetUp,
                       Sky(Times, FarFn), <<>>, 0)
            /\ caches' = CachedCheckMeteorShowers(
                              caches, Cx(d, NoTz, <<>>, NoPlanetUp,
                                         Sky(Times, FarFn), <<>>, 0)).cs
            /\ UNCHANGED history
            /\ outcome' = Outcome(r.ok)
            /\ r_showers' = IF r.ok THEN r.val ELSE <<>>
            /\ UNCHANGED <<r_visible, r_conj, r_moon, r_sun>>

moon_info ==
    /\ op = "none"
    /\ \E d \in DateSmall, moon \in MoonSeqs, elong \in Elongations :
        LET r == MoonInfo(moon, elong)
        IN  /\ Observe("moon_info", d, NoTz, <<>>, NoPlanetUp, Sky(Times, FarFn), moon, elong)
            /\ caches' = CachedMoonInfo(
                              caches, Cx(d, NoTz, <<>>, NoPlanetUp,
                                         Sky(Times, FarFn), moon, elong)).cs
            /\ UNCHANGED history
            /\ outcome' = Outcome(r.ok)
            /\ r_moon' = IF r.ok THEN r.val ELSE NoMoon
            /\ UNCHANGED <<r_visible, r_conj, r_showers, r_sun>>

get_sun_info ==
    /\ op = "none"
    /\ \E d \in DateSmall, tz \in TzSet, sun \in SunSeqs :
        LET r == GetSunInfo(sun, tz)
        IN  /\ Observe("get_sun_info", d, tz, sun, NoPlanetUp, Sky(Times, FarFn), <<>>, 0)
            /\ caches' = CachedSunInfo(
                              caches, Cx(d, tz, sun, NoPlanetUp,
                                         Sky(Times, FarFn), <<>>, 0)).cs
            /\ UNCHANGED history
            /\ outcome' = Outcome(r.ok)
            /\ r_sun' = IF r.ok THEN r.val ELSE NoSun
            /\ UNCHANGED <<r_visible, r_conj, r_showers, r_moon>>

get_astronomical_events ==
    /\ op = "none"
    /\ \E d \in DatePair, tz \in TzSet, sun \in SunSeqs, pe \in PlanetDaysSmall,
       sk \in SkySmall, moon \in MoonSmall, elong \in ElongSmall :
        LET r == GetAstronomicalEvents(d, sun, tz, pe, sk, moon, elong,
                                       bad_body, meteor_shower_data)
        IN  /\ Observe("get_astronomical_events", d, tz, sun, pe, sk, moon, elong)
            /\ caches' = CachedAstronomicalEvents(
                              caches, Cx(d, tz, sun, pe, sk, moon, elong)).cs
            /\ history' = history \cup
                   {Result(objects[self], d, r.ok,
                           [visible_planets |-> r.visible_planets,
                            conjunctions |-> r.conjunctions,
                            meteor_showers |-> r.meteor_showers,
                            moon_info |-> r.moon_info, sun_info |-> r.sun_info],
                           FALSE)}
            /\ outcome' = Outcome(r.ok)
            /\ r_visible' = IF r.ok THEN r.visible_planets ELSE <<>>
            /\ r_conj' = IF r.ok THEN r.conjunctions ELSE <<>>
            /\ r_showers' = IF r.ok THEN r.meteor_showers ELSE <<>>
            /\ r_moon' = IF r.ok THEN r.moon_info ELSE NoMoon
            /\ r_sun' = IF r.ok THEN r.sun_info ELSE NoSun

get_risings_and_settings ==
    /\ op = "none"
    /\ \E d \in WindowDates, f \in Horizons :
        LET r == GetRisingsAndSettings(d, f)
        IN  /\ Observed("get_risings_and_settings", d, NoTz, <<>>, NoPlanetUp,
                        Sky(Times, FarFn), <<>>, 0)
            /\ horizon' = f
            /\ r_transitions' = r
            /\ caches' = CachedRisingsAndSettings(
                              caches, Cx(d, NoTz, r, NoPlanetUp,
                                         Sky(Times, FarFn), <<>>, 0)).cs
            /\ outcome' = "returned"
            /\ UNCHANGED <<history, r_visible, r_conj, r_showers, r_moon, r_sun>>

Next ==
    \/ get_risings_and_settings
    \/ visible_planets
    \/ check_conjunctions
    \/ check_meteor_showers
    \/ moon_info
    \/ get_sun_info
    \/ get_astronomical_events

Spec == Init /\ [][Next]_vars

\* ------------------------------------------------- a sequence of requests
\* create_app has not been called yet; the data files of the deployment
\* are complete or one of them cannot be loaded
InitRequests ==
    /\ Fresh
    /\ bad_body \in RequestBadBodies
    /\ objects = <<>>
    /\ self = 0
    /\ file_reads = 0
    /\ caches = NoCaches
    /\ data_files \in DataFiles
    /\ app_started = FALSE
    /\ failure_seen = "none"

\* create_app(): the Flask object, the logging and the blueprint; neither
\* data file is opened
create_app ==
    /\ ~app_started
    /\ app_started' = TRUE
    /\ UNCHANGED <<data_files, failure_seen>>
    /\ UNCHANGED <<astronomy_vars, n_calls, http_vars, weather_vars>>

\* the last call was get_astronomical_events(d) on object obj, with result r
Called(how, obj, coords, d, r) ==
    LET a == Answers(coords, d)
    IN  /\ op' = "get_astronomical_events"
        /\ entry_point' = how
        /\ self' = obj
        /\ date' = d
        /\ local_tz' = a.tz
        /\ sun_events' = a.sun
        /\ planet_events' = a.pe
        /\ sky' = a.sk
        /\ moon_events' = a.moon
        /\ elongation' = a.elong
        /\ caches' = r.cs
        /\ cache_hit' = r.hit
        /\ outcome' = Outcome(r.ok)
        /\ r_visible' = IF r.ok THEN r.val.visible_planets ELSE <<>>
        /\ r_conj' = IF r.ok THEN r.val.conjunctions ELSE <<>>
        /\ r_showers' = IF r.ok THEN r.val.meteor_showers ELSE <<>>
        /\ r_moon' = IF r.ok THEN r.val.moon_info ELSE NoMoon
        /\ r_sun' = IF r.ok THEN r.val.sun_info ELSE NoSun
        /\ history' = history \cup {Result(coords, d, r.ok, r.val, r.hit)}
        /\ n_calls' = n_calls + 1
        /\ UNCHANGED <<bad_body, meteor_shower_data, horizon, r_transitions>>

\* routes.get_astronomical_events(latitude, longitude): a new object, whose
\* constructor loads the shower calendar, and one call on it.  The first
\* WarmUp requests are those of one observer on one date.
\* AstronomicalEvents(latitude, longitude) raises: load(...) of the
\* ephemeris or the open and json.load of the shower calendar fails
ConstructorRaises(files) == files # "present"

\* the new object of a request, its calendar load and its one call
RequestCall(coords, d) ==
    LET obj == Len(objects) + 1
        now == n_calls + 1
        ld == CachedLoadMeteorShowerData(caches, obj, now, meteor_shower_data)
        r == CachedAstronomicalEvents(
                 ld.cs, Call(obj, d, now, Answers(coords, d),
                             bad_body, meteor_shower_data))
    IN  [obj |-> obj, ld |-> ld, r |-> r]

RequestRaises(coords, d) ==
    ConstructorRaises(data_files) \/ ~RequestCall(coords, d).r.ok

\* routes.get_astronomical_events(latitude, longitude), as a step
RoutesGetAstronomicalEvents(coords, d) ==
    IF ConstructorRaises(data_files)
    THEN /\ failure_seen' = "request"
         /\ n_calls' = n_calls + 1
         /\ UNCHANGED astronomy_vars
    ELSE LET c == RequestCall(coords, d)
         IN  /\ objects' = Append(objects, coords)
             /\ file_reads' = IF c.ld.hit THEN file_reads ELSE file_reads + 1
             /\ Called("routes", c.obj, coords, d, c.r)
             /\ UNCHANGED failure_seen

routes_get_astronomical_events ==
    /\ app_started
    /\ n_calls < WarmUp + MaxVaried
    /\ \E coords \in (IF n_calls < WarmUp THEN {WarmObserver} ELSE Observers),
          d \in (IF n_calls < WarmUp THEN {WarmDate} ELSE DatePair) :
        RoutesGetAstronomicalEvents(coords, d)
    /\ UNCHANGED <<data_files, app_started, http_vars, weather_vars>>

\* get_astronomical_events(date) once more on an object built before, the
\* first or the last of them
get_astronomical_events_again ==
    /\ n_calls >= WarmUp
    /\ n_calls < WarmUp + MaxVaried
    /\ objects # <<>>
    /\ UNCHANGED <<startup_vars, http_vars, weather_vars>>
    /\ \E obj \in {1, Len(objects)}, d \in DatePair :
        LET coords == objects[obj]
            r == CachedAstronomicalEvents(
                     caches, Call(obj, d, n_calls + 1, Answers(coords, d),
                                  bad_body, meteor_shower_data))
        IN  /\ Called("method", obj, coords, d, r)
            /\ UNCHANGED <<objects, file_reads>>

NextRequests ==
    \/ create_app
    \/ routes_get_astronomical_events
    \/ get_astronomical_events_again

SpecRequests == InitRequests /\ [][NextRequests]_vars

\* ------------------------------------------------- the handler of the page
\* POST /process_coordinates: the steps of the try block in their order;
\* whatever one of them raises becomes the 500 response
process_coordinates ==
    /\ app_started
    /\ n_calls < MaxVaried
    /\ \E ext \in Externals :
        LET pre == BeforeAstronomy(ext)
            raised == IF pre.ok THEN RequestRaises(ext.coords, ext.date) ELSE TRUE
        IN  /\ http_ext' = ext
            /\ http_status' = IF raised THEN 500 ELSE 200
            /\ http_body' = IF ~raised THEN OkBody
                            ELSE IF pre.ok THEN ErrorBody("astronomy")
                            ELSE ErrorBody(pre.error)
            /\ IF pre.ok THEN RoutesGetAstronomicalEvents(ext.coords, ext.date)
               ELSE UNCHANGED <<astronomy_vars, n_calls, failure_seen>>
    /\ UNCHANGED <<data_files, app_started, weather_vars>>

NextWeb ==
    \/ create_app
    \/ process_coordinates

SpecWeb == InitRequests /\ [][NextWeb]_vars

\* ----------------------------------------------- the clients of Open-Meteo
\* OpenMeteoClient(latitude, longitude) has been built MaxClients times
InitWeather == Init /\ bad_body = NoBody

WeatherCall(c, m, r) ==
    /\ w_call' = [client |-> c, method |-> m, result |-> r]
    /\ UNCHANGED <<astronomy_vars, n_calls, startup_vars, http_vars>>

fetch_weather_data ==
    \E c \in Clients, api \in ApiOutcomes :
        /\ w_response' = [w_response EXCEPT ![c] = FetchWeatherData(@, api)]
        /\ w_last_fetch' =
              [w_last_fetch EXCEPT
                 ![c] = [ended |-> IF ApiFailed(api) THEN "failed" ELSE "succeeded",
                         had_response |-> w_response[c] # NoResponse]]
        /\ WeatherCall(c, "fetch_weather_data", Return("None"))

\* a reader neither stores nor clears the response
Reader(m) ==
    \E c \in Clients :
        /\ WeatherCall(c, m, Read(w_response[c], m))
        /\ UNCHANGED <<w_response, w_last_fetch>>

get_location_info == Reader("get_location_info")

get_current_weather == Reader("get_current_weather")

get_hourly_weather == Reader("get_hourly_weather")

get_daily_weather == Reader("get_daily_weather")

NextWeather ==
    \/ fetch_weather_data
    \/ get_location_info
    \/ get_current_weather
    \/ get_hourly_weather
    \/ get_daily_weather

SpecWeather == InitWeather /\ [][NextWeather]_vars

TypeOK ==
    /\ local_tz \in TzSet
    /\ bad_body \in BadBodies
    /\ outcome \in {"none", "returned", "raised"}
    /\ (op = "none") = (outcome = "none")

\* ------------------------------------------------------------------ claims
Aggregated == op = "get_astronomical_events"

HasRise(evs) == \E i \in DOMAIN evs : evs[i].rise

HasSet(evs) == \E i \in DOMAIN evs : ~evs[i].rise

Listed(p) == \E k \in DOMAIN r_visible : r_visible[k].planet = p

Reported(p1, p2, t) ==
    \E k \in DOMAIN r_conj :
        r_conj[k].first = p1 /\ r_conj[k].second = p2 /\ r_conj[k].time = t

\* both coordinates differ by strictly less than one degree
WithinOneDegree(a1, a2) ==
    /\ a1.alt - a2.alt < UnitsPerDegree /\ a2.alt - a1.alt < UnitsPerDegree
    /\ a1.az - a2.az < UnitsPerDegree /\ a2.az - a1.az < UnitsPerDegree

ConjunctionsReturned ==
    op \in {"check_conjunctions", "get_astronomical_events"} /\ outcome = "returned"

\* C1: with the ephemeris loaded and every lookup succeeding,
\* get_astronomical_events returns (a result with its five fields) for
\* every observer and date; it does not raise.
C1_AggregatorAlwaysReturns ==
    (Aggregated /\ bad_body = NoBody) => outcome = "returned"

\* C2: on a day on which the Sun has no rise or no set transition,
\* get_sun_info and get_astronomical_events do not raise and the Sun info
\* carries null for the missing sunrise/sunset.
C2_PolarDaySunInfoNull ==
    (/\ op \in {"get_sun_info", "get_astronomical_events"}
     /\ bad_body = NoBody
     /\ (~HasRise(sun_events) \/ ~HasSet(sun_events)))
    => (/\ outcome = "returned"
        /\ (~HasRise(sun_events) => r_sun.sunrise = Null)
        /\ (~HasSet(sun_events) => r_sun.sunset = Null))

\* C3: when the lookup of one planet raises during check_conjunctions, the
\* call still returns, with every close pair of the other planets reported;
\* get_astronomical_events returns as well (on a day with a sunrise and a
\* sunset, so that nothing else can fail).
C3_ConjunctionFailureStaysLocal ==
    (/\ op \in {"check_conjunctions", "get_astronomical_events"}
     /\ bad_body \in Planets
     /\ HasRise(sun_events) /\ HasSet(sun_events))
    => (/\ outcome = "returned"
        /\ \A i \in DOMAIN sun_events : \A p1, p2 \in Planets \ {bad_body} :
              (/\ sun_events[i].rise /\ p1 # p2
               /\ WithinOneDegree(sky[sun_events[i].t][p1], sky[sun_events[i].t][p2]))
              => Reported(p1, p2, sun_events[i].t))

\* C4: when no time zone is resolved for the observer (on a day with a
\* sunrise and a sunset, the days on which the zone is looked up),
\* visible_planets lists every planet that has a rise and a set in the day.
C4_NoTimezoneListsEveryCandidate ==
    (/\ op = "visible_planets" /\ outcome = "returned"
     /\ ~local_tz.found
     /\ HasRise(sun_events) /\ HasSet(sun_events))
    => \A p \in Planets \ {bad_body} :
          (HasRise(planet_events[p]) /\ HasSet(planet_events[p])) => Listed(p)

\* C5: when no time zone is resolved for the observer, a Sun info that is
\* returned has null sunrise and sunset.
C5_NoTimezoneSunInfoNull ==
    (/\ op \in {"get_sun_info", "get_astronomical_events"}
     /\ outcome = "returned"
     /\ ~local_tz.found)
    => (r_sun.sunrise = Null /\ r_sun.sunset = Null)

\* the daytime window of the day: from the sunrise to the sunset
BeforeSunriseOrAfterSunset(t) ==
    t < LastTime(sun_events, TRUE) \/ t > LastTime(sun_events, FALSE)

\* C6: with the time zone resolved and a sunrise and a sunset in the day, a
\* planet with one rise and one set is listed when either of the two
\* instants lies before sunrise or after sunset.
C6_EitherInstantQualifies ==
    (/\ op = "visible_planets" /\ outcome = "returned"
     /\ local_tz.found
     /\ HasRise(sun_events) /\ HasSet(sun_events))
    => \A p \in Planets \ {bad_body} :
          (/\ Len(planet_events[p]) = 2
           /\ (\/ BeforeSunriseOrAfterSunset(planet_events[p][1].t)
               \/ BeforeSunriseOrAfterSunset(planet_events[p][2].t)))
          => Listed(p)

\* C7: at each sampled instant (each Sun rise of the day) the returned
\* list holds a pair of distinct planets if and only if their altitudes and
\* their azimuths both differ by strictly less than one degree.
C7_ReportedIffWithinOneDegree ==
    ConjunctionsReturned
    => \A i \in DOMAIN sun_events : \A p1, p2 \in Planets :
          (sun_events[i].rise /\ p1 # p2)
          => (Reported(p1, p2, sun_events[i].t)
              <=> WithinOneDegree(sky[sun_events[i].t][p1], sky[sun_events[i].t][p2]))

\* two planets with identical AltAz at a Sun rise are reported
C7_Witness ==
    /\ ConjunctionsReturned
    /\ \E i \in DOMAIN sun_events : \E p1, p2 \in Planets :
          /\ sun_events[i].rise /\ p1 # p2
          /\ sky[sun_events[i].t][p1] = sky[sun_events[i].t][p2]
          /\ Reported(p1, p2, sun_events[i].t)

\* C8: every reported conjunction carries the instant of a Sun rise of the
\* day; in particular a day without a Sun rise yields the empty list and
\* no setting instant is sampled.
C8_OnlySunRiseInstants ==
    ConjunctionsReturned
    => \A k \in DOMAIN r_conj :
          \E i \in DOMAIN sun_events :
              sun_events[i].rise /\ sun_events[i].t = r_conj[k].time

\* two planets are close at a Sun rise and at a Sun set of the day, and
\* conjunctions are reported
C8_Witness ==
    /\ ConjunctionsReturned
    /\ r_conj # <<>>
    /\ \E i \in DOMAIN sun_events : \E p1, p2 \in Planets :
          /\ ~sun_events[i].rise /\ p1 # p2
          /\ WithinOneDegree(sky[sun_events[i].t][p1], sky[sun_events[i].t][p2])

\* C9: the returned list never holds both (A,B) and (B,A) for one instant.
C9_NoMirroredPair ==
    (op = "check_conjunctions" /\ outcome = "returned")
    => \A j, k \in DOMAIN r_conj :
          ~(/\ r_conj[j].first = r_conj[k].second
            /\ r_conj[j].second = r_conj[k].first
            /\ r_conj[j].time = r_conj[k].time)

\* C10: whenever A-B is reported at an instant, B-A is reported at the same
\* instant, and the list has even length.
C10_BothOrderingsReported ==
    ConjunctionsReturned
    => (/\ \A k \in DOMAIN r_conj :
              Reported(r_conj[k].second, r_conj[k].first, r_conj[k].time)
        /\ Len(r_conj) % 2 = 0)

\* a conjunction of Mars and Venus is reported in both orders
C10_Witness ==
    /\ op = "check_conjunctions" /\ outcome = "returned"
    /\ \E t \in Times : Reported("Mars", "Venus", t) /\ Reported("Venus", "Mars", t)

ShowerListed(name) == \E k \in DOMAIN r_showers : r_showers[k].name = name

\* C11: check_meteor_showers includes a shower for a query date on its
\* start day or on its end day, whatever the time of day of the query, and
\* excludes it on the day before the start and on the day after the end.
C11_ShowerBoundariesInclusive ==
    (op \in {"check_meteor_showers", "get_astronomical_events"} /\ outcome = "returned")
    => \A i \in DOMAIN meteor_shower_data :
          LET sh == meteor_shower_data[i]
          IN  /\ (date.day = sh.start \/ date.day = sh.end) => ShowerListed(sh.name)
              /\ (date.day = sh.start - 1 \/ date.day = sh.end + 1)
                    => ~ShowerListed(sh.name)

\* the eight canonical names, in the order of growing elongation
CanonicalPhases ==
    <<"New Moon", "Waxing Crescent", "First Quarter", "Waxing Gibbous",
      "Full Moon", "Waning Gibbous", "Last Quarter", "Waning Crescent">>

\* the 45-degree sector of an elongation, New Moon centred at 0 degrees:
\* sector k holds the elongations of [45k - 22.5, 45k + 22.5)
CentredSector(elong) == ((2 * elong + 45) \div 90) % 8

\* C12: the phase label of moon_info is the canonical name of the
\* 45-degree sector, centred on New Moon at 0 degrees, of the elongation.
C12_EightCentredSectors ==
    (op \in {"moon_info", "get_astronomical_events"} /\ outcome = "returned")
    => r_moon.moon_phase = CanonicalPhases[CentredSector(elongation) + 1]

\* C13: every elongation of [0, 360) gets one label, a canonical one; 0
\* degrees gets "New Moon" and 180 degrees gets "Full Moon".
C13_PhaseTotalNewAndFull ==
    /\ op = "moon_info" => outcome = "returned"
    /\ (op \in {"moon_info", "get_astronomical_events"} /\ outcome = "returned")
       => (/\ \E k \in DOMAIN CanonicalPhases : r_moon.moon_phase = CanonicalPhases[k]
           /\ (elongation = 0 => r_moon.moon_phase = "New Moon")
           /\ (elongation = 180 => r_moon.moon_phase = "Full Moon"))

\* moon_info has answered "Full Moon" for an elongation of 180 degrees
C13_Witness ==
    /\ op = "moon_info" /\ outcome = "returned"
    /\ elongation = 180 /\ r_moon.moon_phase = "Full Moon"

\* C14: moon_info always returns; moonrise is null exactly when the Moon
\* has no rise transition in the day, moonset exactly when it has no set
\* transition, and a phase is returned in every case.
C14_MoonInfoDegenerateDay ==
    /\ op = "moon_info" => outcome = "returned"
    /\ (op \in {"moon_info", "get_astronomical_events"} /\ outcome = "returned")
       => (/\ (r_moon.moonrise = Null) <=> ~HasRise(moon_events)
           /\ (r_moon.moonset = Null) <=> ~HasSet(moon_events)
           /\ r_moon.moon_phase # "none")

\* moon_info has returned for a day on which the Moon only sets
C14_Witness ==
    /\ op = "moon_info" /\ outcome = "returned"
    /\ ~HasRise(moon_events) /\ HasSet(moon_events)
    /\ r_moon.moonrise = Null /\ r_moon.moonset # Null

\* C15: visible_planets returns at most one entry per planet.
C15_OneEntryPerPlanet ==
    (op = "visible_planets" /\ outcome = "returned")
    => \A p \in Planets :
          Cardinality({k \in DOMAIN r_visible : r_visible[k].planet = p}) <= 1

\* the entries of a list of visible planets that are not about planet p
RECURSIVE WithoutPlanet(_, _)
WithoutPlanet(list, p) ==
    IF list = <<>> THEN <<>>
    ELSE IF Head(list).planet = p THEN WithoutPlanet(Tail(list), p)
    ELSE <<Head(list)>> \o WithoutPlanet(Tail(list), p)

\* C16: when the lookup of one planet raises inside visible_planets, the
\* method returns, that planet is not listed, and the list is the one of
\* a call in which no lookup fails, less the entries of that planet.
C16_VisibleFailureIsolated ==
    (op = "visible_planets" /\ bad_body \in Planets)
    => (/\ outcome = "returned"
        /\ ~Listed(bad_body)
        /\ r_visible =
             WithoutPlanet(VisiblePlanets(sun_events, local_tz, planet_events,
                                          sky, NoBody).val, bad_body))

\* the lookup of Venus failed on a night on which it would qualify; Mars,
\* before it in the enumeration, and Jupiter, after it, are listed
C16_Witness ==
    /\ op = "visible_planets" /\ outcome = "returned"
    /\ bad_body = "Venus"
    /\ HasRise(planet_events["Venus"]) /\ HasSet(planet_events["Venus"])
    /\ Listed("Mars") /\ Listed("Jupiter")

\* what get_astronomical_events computes for the last call when nothing
\* is memoized
Uncached ==
    GetAstronomicalEvents(date, sun_events, local_tz, planet_events, sky,
                          moon_events, elongation, bad_body, meteor_shower_data)

\* C17: two calls of get_astronomical_events for the same observer and the
\* same date give equal results, whatever was called in between and
\* whether a result came from a cache: the results so far agree with each
\* other, and the last one is what the computation without a cache gives.
C17_Reproducible ==
    /\ \A h1 \in history : \A h2 \in history :
          (h1.coords = h2.coords /\ h1.date = h2.date)
          => (h1.ok = h2.ok /\ h1.val = h2.val)
    /\ entry_point # "none"
       => (/\ outcome = Outcome(Uncached.ok)
           /\ Uncached.ok
              => (/\ r_visible = Uncached.visible_planets
                  /\ r_conj = Uncached.conjunctions
                  /\ r_showers = Uncached.meteor_showers
                  /\ r_moon = Uncached.moon_info
                  /\ r_sun = Uncached.sun_info))

\* one observer and date have had a computed result and, after other
\* calls, one served from the cache
C17_Witness ==
    /\ cache_hit /\ outcome = "returned"
    /\ Cardinality({h.date : h \in history}) > 1
    /\ \E h1 \in history : \E h2 \in history :
          /\ h1.coords = h2.coords /\ h1.date = h2.date
          /\ h1.hit /\ ~h2.hit

Keys(c) == {c[i].key : i \in DOMAIN c}

\* C18: a request whose observer and calendar day are those of an earlier
\* request, the entry of which is still in the cache of
\* get_astronomical_events, is served from that cache.
C18_SameObserverAndDayServedFromCache ==
    (entry_point = "routes"
     /\ \E k \in Keys(caches["get_astronomical_events"]) :
           /\ k[1] < self
           /\ objects[k[1]] = objects[self]
           /\ k[2].day = date.day)
    => cache_hit

\* an entry that a step removes from a cache was, in a full cache, the one
\* used longest ago
EvictsLeastRecentlyUsed ==
    \A m \in Methods : \A gone \in Keys(caches[m]) \ Keys(caches'[m]) :
        /\ Len(caches[m]) = CacheMaxSize
        /\ Len(caches'[m]) = CacheMaxSize
        /\ \A i \in Position(caches[m], gone) : \A k \in DOMAIN caches[m] :
               caches[m][i].used <= caches[m][k].used

\* C19: the cache of each memoized method holds at most 128 entries, and
\* an entry is only removed from a full cache that takes a new key, the
\* least recently used one.
C19_CachesBoundedLru ==
    /\ [](\A m \in Methods : Len(caches[m]) <= CacheMaxSize)
    /\ [][EvictsLeastRecentlyUsed]_vars

\* the cache of get_astronomical_events is full and has evicted the entry
\* of the second object, while the entry of the first, which was used
\* again, is kept
C19_Witness ==
    /\ Len(caches["get_astronomical_events"]) = CacheMaxSize
    /\ Len(objects) > CacheMaxSize
    /\ CacheKey(1, <<WarmDate>>) \in Keys(caches["get_astronomical_events"])
    /\ CacheKey(2, <<WarmDate>>) \notin Keys(caches["get_astronomical_events"])
    /\ CacheKey(1, <<WarmDate>>) \notin Keys(caches["visible_planets"])

\* C20: across any sequence of requests the calendar file is read at most
\* once.
C20_CalendarReadOnce == file_reads <= 1

\* the enumeration order of the planets that the claims name
ClaimedOrder == <<"Mars", "Venus", "Jupiter", "Saturn", "Mercury">>

Rank(p) == CHOOSE i \in DOMAIN ClaimedOrder : ClaimedOrder[i] = p

\* entry a comes before entry b: by instant, then first, then second planet
ComesBefore(a, b) ==
    \/ a.time < b.time
    \/ /\ a.time = b.time
       /\ \/ Rank(a.first) < Rank(b.first)
          \/ Rank(a.first) = Rank(b.first) /\ Rank(a.second) < Rank(b.second)

\* C22: the conjunction list is ordered by sampled instant, then by first
\* planet, then by second planet, in the order Mars, Venus, Jupiter,
\* Saturn, Mercury, and holds no pair of a planet with itself.
C22_ConjunctionOrder ==
    (op \in {"check_conjunctions", "get_astronomical_events"} /\ outcome = "returned")
    => /\ \A k \in 1 .. (Len(r_conj) - 1) : ComesBefore(r_conj[k], r_conj[k + 1])
       /\ \A k \in DOMAIN r_conj : r_conj[k].first # r_conj[k].second

\* all planets are in conjunction at two Sun rises of one day: the list
\* holds every ordered pair at either instant
C22_Witness ==
    /\ op = "check_conjunctions" /\ outcome = "returned"
    /\ sky = SkyAllClose
    /\ Len(r_conj) = 2 * NPlanets * (NPlanets - 1)

\* the difference of two azimuths as angles on the circle
CircularDiff(a, b) ==
    IF Abs(a - b) > 180 * UnitsPerDegree
    THEN 360 * UnitsPerDegree - Abs(a - b) ELSE Abs(a - b)

\* C24: two planets whose altitudes differ by less than one degree and
\* whose azimuths, as angles on the circle, differ by less than one degree
\* at a sampled instant are reported, also when the azimuths lie on
\* either side of north.
C24_AzimuthOnTheCircle ==
    ConjunctionsReturned
    => \A i \in DOMAIN sun_events : \A p1 \in Planets : \A p2 \in Planets :
          (/\ sun_events[i].rise
           /\ p1 # p2
           /\ Abs(sky[sun_events[i].t][p1].alt - sky[sun_events[i].t][p2].alt)
                 < UnitsPerDegree
           /\ CircularDiff(sky[sun_events[i].t][p1].az, sky[sun_events[i].t][p2].az)
                 < UnitsPerDegree)
          => Reported(p1, p2, sun_events[i].t)

\* C25: visible_planets returns, and lists a planet only if the planet
\* has both a rise and a set transition in the day.
C25_ListedHasRiseAndSet ==
    op = "visible_planets"
    => /\ outcome = "returned"
       /\ \A p \in Planets :
             Listed(p) => (HasRise(planet_events[p]) /\ HasSet(planet_events[p]))

\* Mars has a single transition on a night on which the comparison with
\* the Sun's instants works: the call returns without Mars
C25_Witness ==
    /\ op = "visible_planets" /\ outcome = "returned"
    /\ local_tz.found /\ HasRise(sun_events) /\ HasSet(sun_events)
    /\ bad_body = NoBody
    /\ Len(planet_events["Mars"]) = 1
    /\ ~Listed("Mars")

\* the Sun is above the horizon at instant t, which is none of its
\* transitions: the transition before t is a rise, or there is none
\* before t and the one after t is a set
SunUpAt(sun, t) ==
    LET before == {i \in DOMAIN sun : sun[i].t < t}
        after  == {i \in DOMAIN sun : sun[i].t > t}
    IN  /\ \A i \in DOMAIN sun : sun[i].t # t
        /\ \/ before # {} /\ sun[Max(before)].rise
           \/ before = {} /\ after # {} /\ ~sun[Min(after)].rise

\* C26: every planet that visible_planets lists has a rise instant at
\* which the Sun is not above the horizon, whatever the order of the Sun's
\* rise and set in the UTC day.
C26_ListedRisesInTheDark ==
    (op = "visible_planets" /\ outcome = "returned")
    => \A k \in DOMAIN r_visible : ~SunUpAt(sun_events, r_visible[k].rise_time)

\* C27: on a day on which the Sun has no rise or no set transition,
\* visible_planets returns the empty list.
C27_NoSunTransitionEmptyList ==
    (op = "visible_planets" /\ (~HasRise(sun_events) \/ ~HasSet(sun_events)))
    => (outcome = "returned" /\ r_visible = <<>>)

\* the Sun only rises, the time zone is known and every planet rises and
\* sets in the day
C27_Witness ==
    /\ op = "visible_planets" /\ outcome = "returned"
    /\ HasRise(sun_events) /\ ~HasSet(sun_events)
    /\ local_tz.found /\ bad_body = NoBody
    /\ \A p \in Planets : HasRise(planet_events[p]) /\ HasSet(planet_events[p])
    /\ r_visible = <<>>

\* t is the instant of the last transition of the given kind
IsLastOfKind(evs, flag, t) ==
    /\ \E i \in DOMAIN evs : evs[i].rise = flag /\ evs[i].t = t
    /\ \A j \in DOMAIN evs : evs[j].rise = flag => evs[j].t <= t

\* the clock reading that get_sun_info gives for the UTC instant t
Clock(t) == IF local_tz.found THEN (t + local_tz.off) % TicksPerDay ELSE t

\* C28: with more than one rise (or set) transition in the day, moon_info
\* and get_sunrise_sunset, read through get_sun_info, report the last one.
C28_LastTransitionReported ==
    /\ (op = "moon_info" /\ outcome = "returned")
       => /\ HasRise(moon_events) => IsLastOfKind(moon_events, TRUE, r_moon.moonrise)
          /\ HasSet(moon_events) => IsLastOfKind(moon_events, FALSE, r_moon.moonset)
    /\ (op = "get_sun_info" /\ outcome = "returned")
       => /\ \E t \in Times : IsLastOfKind(sun_events, TRUE, t) /\ r_sun.sunrise = Clock(t)
          /\ \E t \in Times : IsLastOfKind(sun_events, FALSE, t) /\ r_sun.sunset = Clock(t)

\* the Moon rises twice in the day and the later rise is reported
C28_Witness ==
    /\ op = "moon_info" /\ outcome = "returned"
    /\ Len(moon_events) = 3 /\ moon_events[1].rise
    /\ r_moon.moonrise = moon_events[3].t

InTheDay(t, d) ==
    /\ d.day * TicksPerDay <= t
    /\ t < (d.day + 1) * TicksPerDay

\* C23: every transition that get_risings_and_settings returns for a date
\* lies in the UTC day of that date, and it is flagged a rise exactly when
\* the body goes from not above the horizon to above it at that instant.
C23_TransitionsOfTheDay ==
    op = "get_risings_and_settings"
    => \A i \in DOMAIN r_transitions :
          LET e == r_transitions[i]
          IN  /\ InTheDay(e.t, date)
              /\ e.rise = (~horizon[e.t] /\ horizon[e.t + 1])

\* the body rises and sets on the day asked for, and crosses the horizon
\* on the other day as well
C23_Witness ==
    /\ op = "get_risings_and_settings"
    /\ \E i \in DOMAIN r_transitions : r_transitions[i].rise
    /\ \E i \in DOMAIN r_transitions : ~r_transitions[i].rise
    /\ \E t \in Instants \ {2 * TicksPerDay} :
          /\ ~InTheDay(t, date)
          /\ horizon[t] # horizon[t + 1]

\* a request has been answered or has raised
RequestServed == n_calls > 0 \/ http_status # 0

\* C21: a data file that cannot be loaded is a startup failure: it is
\* seen before the first request is served, and never first while a
\* request is handled.
C21_DataFileFailureAtStartup ==
    /\ failure_seen # "request"
    /\ (data_files # "present" /\ RequestServed) => failure_seen = "startup"

AllSucceed(ext) ==
    /\ ext.body = "coords"
    /\ ext.terrain = "ok"
    /\ ext.elevation = "ok"
    /\ ext.weather \in Payloads
    /\ ext.centers >= 1

\* C29: a request to /process_coordinates for which every external call
\* succeeds and an urban center is found is answered with status 200 and
\* a data that contains astronomical_events; a 500 response carries an
\* error message and no part of the result.
C29_ProcessCoordinatesAnswers ==
    /\ (http_status # 0 /\ AllSucceed(http_ext) /\ data_files = "present"
        /\ bad_body = NoBody /\ http_ext.coords = "berlin")
       => (http_status = 200 /\ "astronomical_events" \in http_body.data)
    /\ http_status = 500
       => (http_body.keys = {"error"} /\ http_body.data = {})

\* C30: a reader of an OpenMeteoClient raises ValueError unless the last
\* fetch_weather_data of that client succeeded, also when an earlier fetch
\* had stored a response.
C30_ReadersFollowTheFetch ==
    w_call.method \in ReaderNames
    => (w_call.result.error = "ValueError")
         = (w_last_fetch[w_call.client].ended # "succeeded")

\* a reader raises on a client whose last fetch failed and cleared the
\* response of an earlier one
C30_Witness ==
    /\ w_call.method \in ReaderNames
    /\ w_call.result.error = "ValueError"
    /\ w_last_fetch[w_call.client] = [ended |-> "failed", had_response |-> TRUE]

====
